---- MODULE Spec2Model ----
(***************************************************************************)
(* A model of the tiny collaborative todo service:                         *)
(*   - TinyBaseStore (src/src/durable-object.ts): one Durable Object per   *)
(*     user, holding the stored document and the set of live WebSockets;   *)
(*   - isRateLimited and getUserId (worker, src/unnamed/part_001).         *)
(*                                                                         *)
(* The handlers of TinyBaseStore are async functions.  Each action below   *)
(* is one handler segment between two awaits: the code that runs up to an  *)
(* awaited storage call, or the continuation that runs when that call      *)
(* settles.  Storage calls of one object settle in the order issued.       *)
(***************************************************************************)
EXTENDS Integers, Sequences, FiniteSets, TLC

\* ------------------------------------------------------------------ bounds
MaxSessions == 3        \* WebSocket connections ever opened
MaxMsgs     == 2        \* client frames ever sent
MaxPending  == 2        \* storage calls in flight per object
MaxDocs     == 2        \* distinct document contents a client may send
ShardMsgs   == 1        \* client frames ever sent when two shards are live
MaxEvictions == 1       \* times the instance of an object is discarded

Users    == {"alice", "bob"}
Sessions == 1..MaxSessions

\* --------------------------------------------------------------- JSON model
\* A JSON value is [kind, c]: kind "doc" is an object with the regions tables
\* and values (c names its content), the other kinds are JSON values that are
\* not documents.  "undefined" is what storage.get returns for a missing key,
\* "SyntaxError" what JSON.parse throws, "StorageError" what a rejected
\* storage.put throws.
Undefined   == [kind |-> "undefined", c |-> 0]
SyntaxError == [kind |-> "SyntaxError", c |-> 0]
StorageError == [kind |-> "StorageError", c |-> 0]
JsonNull    == [kind |-> "null", c |-> 0]
JsonNumber  == [kind |-> "num", c |-> 42]
Doc(c)      == [kind |-> "doc", c |-> c]

\* What session.send throws when the send to socket t fails.
SendError(t) == [kind |-> "SendError", c |-> t]

\* The content c of a document names its table todos: 0 is the empty table
\* {}, NoTable a tables region that holds no table todos.
NoTable == -1

\* Object.keys(data.tables), as far as the worker and the page look at it.
TablesOf(v) == IF v.kind = "doc" /\ v.c # NoTable THEN {"todos"} ELSE {}

\* data.tables.todos of a document that has the table.
TodosOf(v) == v.c

\* Mutant: a default with an empty tables region, { tables: {}, values: {} }.
DefaultDocNoTable == Doc(NoTable)

\* { tables: { todos: {} }, values: {} }
DefaultDoc  == Doc(0)

Docs     == {Doc(c) : c \in 1..MaxDocs}
NonDocs  == {JsonNull, JsonNumber}

\* A text is what travels in a WebSocket frame: the JSON value it spells (or
\* "garbage" when it is no JSON at all) and whether it is spelled with
\* insignificant white space, which JSON.stringify never produces.
Garbage  == [val |-> [kind |-> "garbage", c |-> 0], ws |-> FALSE]
Text(v, ws) == [val |-> v, ws |-> ws]

\* What a client may send.
Payloads == {Text(Doc(c), c % 2 = 1) : c \in 1..MaxDocs}
              \cup {Text(v, FALSE) : v \in NonDocs} \cup {Garbage}

\* Mutant: a parser that throws on nothing.
JSONparseLenient(text) == text.val

JSONparse(text) ==
  IF text.val.kind = "garbage" THEN SyntaxError ELSE text.val

JSONstringify(v) == Text(v, FALSE)

\* Mutant: `&&` written for `||`, so that the default is always served.
TruthyNever(v) == FALSE

\* JavaScript truthiness of a stored value, for `get(...) || default`.
Truthy(v) == v.kind \notin {"undefined", "null"}

\* Mutant: the `|| default` forgotten.
OrDefaultMissing(v) == v

OrDefault(v) == IF Truthy(v) THEN v ELSE DefaultDoc

\* ------------------------------------------------------------------ routing
\* getByName(`user-${userId}`): the object a user id is routed to.
NoObj == <<"none", "">>

\* Mutant: one object for everybody, as before the sharding by user.
DONameShared(u) == <<"user-", "alice">>

DOName(u) == <<"user-", u>>

Names == {DOName(u) : u \in Users}

VARIABLES
  storage,      \* per object: the value stored under the key 'todos'
  sessions,     \* per object: this.sessions, in insertion order
  pending,      \* per object: awaited storage calls, in the order issued
  objOf,        \* per session: the object that accepted it
  userOf,       \* per session: the user id its request resolved to
  readyState,   \* per session: state of the server side socket
  inbox,        \* per session: frames passed to its send(), in order
  console,      \* the errors passed to console.error, in order
  sent,         \* history: the client frames sent so far, [sess, text]
  httpBody,     \* the last HTTP response of an object: [obj, body]
  incarnation   \* per object: how many times its instance was discarded

hubVars == <<storage, sessions, pending, objOf, userOf, readyState, inbox,
             console, sent, httpBody, incarnation>>

VARIABLES
  now,          \* Date.now()
  rateLimiter,  \* the Map rateLimiter, NoEntry for an address it does not hold
  limited,      \* per address: what isRateLimited last returned for it
  winStart,     \* history: per address, when its current window was opened
  winCount      \* history: per address, requests made in the current window

rateVars == <<now, rateLimiter, limited, winStart, winCount>>

VARIABLES
  req,          \* the request being resolved
  route,        \* the route that resolves it: "/" or "/todos"
  userId,       \* the identity the route resolved it to
  setCookie,    \* the Set-Cookie header the route put on its response
  status        \* the status the worker answered with, 0 when the answer is
                \* the object's

resolveVars == <<req, route, userId, setCookie, status>>

VARIABLES
  todos,        \* per tab: the variable todos of the page, as TodosOf names it
  wsState,      \* per tab: readyState of its websocket, "none" before the page
  up,           \* per tab: the frames it sent that the object has not received
  seen,         \* per tab: how many frames of its socket onmessage has handled
  lastEdit,     \* history: the tab and the result of the last local edit
  tabOf,        \* per socket: the tab whose connectWebSocket() created it
  timer         \* per tab: its setTimeout(connectWebSocket, 3000) not yet run

tabVars == <<todos, wsState, up, seen, lastEdit, tabOf, timer>>

GetOp(s)     == [op |-> "get", sess |-> s, data |-> Undefined]
PutOp(s, v)  == [op |-> "put", sess |-> s, data |-> v]
LoadOp       == [op |-> "load", sess |-> 0, data |-> Undefined]

Frame(from, text) == [from |-> from, text |-> text]

Range(q) == {q[i] : i \in 1..Len(q)}

\* Mutant: clear() written for delete(x).
RemoveAll(q, x) == <<>>

Remove(q, x) == SelectSeq(q, LAMBDA y : y # x)

\* new Response(JSON.stringify(data), ...) of object n; NoResponse before any.
Response(n, data) == [obj |-> n, body |-> JSONstringify(data)]

NoResponse == [obj |-> NoObj, body |-> JSONstringify(Undefined)]

\* No page has been loaded.
NoEdit == [tab |-> 0, c |-> 0]

InitTabs ==
  /\ todos = [t \in Sessions |-> 0]
  /\ wsState = [t \in Sessions |-> "none"]
  /\ up = [t \in Sessions |-> <<>>]
  /\ seen = [t \in Sessions |-> 0]
  /\ lastEdit = NoEdit
  /\ tabOf = [t \in Sessions |-> 0]
  /\ timer = [t \in Sessions |-> 0]

InitHub ==
  /\ storage = [n \in Names |-> Undefined]
  /\ sessions = [n \in Names |-> <<>>]
  /\ pending = [n \in Names |-> <<>>]
  /\ objOf = [s \in Sessions |-> NoObj]
  /\ userOf = [s \in Sessions |-> ""]
  /\ readyState = [s \in Sessions |-> "none"]
  /\ inbox = [s \in Sessions |-> <<>>]
  /\ console = <<>>
  /\ sent = <<>>
  /\ httpBody = NoResponse
  /\ incarnation = [n \in Names |-> 0]

\* ----------------------------------------------------------- TinyBaseStore
\* What no handler of TinyBaseStore touches.
others == <<rateVars, resolveVars, incarnation, tabVars>>

\* fetch, websocket branch, up to the awaited storage.get: accept the socket,
\* add it to this.sessions, register the listeners, issue the read.
ConnectObj(s, u) ==
  LET n == DOName(u) IN
  /\ objOf[s] = NoObj
  /\ \A t \in Sessions : t < s => objOf[t] # NoObj
  /\ Len(pending[n]) < MaxPending
  /\ objOf' = [objOf EXCEPT ![s] = n]
  /\ userOf' = [userOf EXCEPT ![s] = u]
  /\ readyState' = [readyState EXCEPT ![s] = "open"]
  /\ sessions' = [sessions EXCEPT ![n] = Append(@, s)]
  /\ pending' = [pending EXCEPT ![n] = Append(@, GetOp(s))]
  /\ UNCHANGED <<storage, inbox, console, sent, httpBody>>

\* A WebSocket upgrade reaching the object of user u.
Connect(s, u) == ConnectObj(s, u) /\ UNCHANGED others

\* fetch, websocket branch, after the awaited storage.get: send the current
\* data to the new client.  send() on a socket that is no longer open throws
\* and delivers nothing.
ConnectFinish(n) ==
  /\ pending[n] # <<>>
  /\ Head(pending[n]).op = "get"
  /\ LET s == Head(pending[n]).sess
         currentData == OrDefault(storage[n])
     IN inbox' = IF readyState[s] = "open"
                 THEN [inbox EXCEPT ![s] =
                         Append(@, Frame(0, JSONstringify(currentData)))]
                 ELSE inbox
  /\ pending' = [pending EXCEPT ![n] = Tail(@)]
  /\ UNCHANGED <<storage, sessions, objOf, userOf, readyState, console, sent,
                 httpBody, others>>

\* A session may send once its upgrade response was returned, that is once
\* the connect handler has finished.
CanSend(s) ==
  /\ objOf[s] # NoObj
  /\ readyState[s] = "open"
  /\ \A i \in 1..Len(pending[objOf[s]]) :
        ~(pending[objOf[s]][i].op = "get" /\ pending[objOf[s]][i].sess = s)

\* message listener, JSON.parse throws: the catch block logs, nothing else.
\* (m bounds the client frames of a behaviour.)
MessageMalformed(s, text, m) ==
  /\ CanSend(s)
  /\ Len(sent) < m
  /\ JSONparse(text) = SyntaxError
  /\ console' = Append(console, SyntaxError)
  /\ sent' = Append(sent, [sess |-> s, text |-> text])
  /\ UNCHANGED <<storage, sessions, pending, objOf, userOf, readyState, inbox,
                 httpBody, others>>

\* message listener, up to the awaited storage.put.
MessageParsedObj(s, text, m) ==
  LET n == objOf[s]
      data == JSONparse(text)
  IN
  /\ CanSend(s)
  /\ Len(sent) < m
  /\ data # SyntaxError
  /\ Len(pending[n]) < MaxPending
  /\ pending' = [pending EXCEPT ![n] = Append(@, PutOp(s, data))]
  /\ sent' = Append(sent, [sess |-> s, text |-> text])
  /\ UNCHANGED <<storage, sessions, objOf, userOf, readyState, inbox, console,
                 httpBody>>

\* A frame of some client reaching the object of session s.
MessageParsed(s, text, m) == MessageParsedObj(s, text, m) /\ UNCHANGED others

\* this.sessions.forEach(...) of the message listener: the sessions that are
\* sent the message, in iteration order.
Recipients(n, sender) ==
  SelectSeq(sessions[n], LAMBDA t : t # sender /\ readyState[t] = "open")

Broadcast(n, sender, message) ==
  [t \in Sessions |->
     IF t \in Range(Recipients(n, sender))
     THEN Append(inbox[t], Frame(sender, message))
     ELSE inbox[t]]

\* Mutant: the broadcast made without waiting for the save.
PutResolveUnsaved(n) ==
  /\ pending[n] # <<>>
  /\ Head(pending[n]).op = "put"
  /\ LET s == Head(pending[n]).sess
         data == Head(pending[n]).data
     IN inbox' = Broadcast(n, s, JSONstringify(data))
  /\ pending' = [pending EXCEPT ![n] = Tail(@)]
  /\ UNCHANGED <<storage, sessions, objOf, userOf, readyState, console, sent,
                 httpBody, others>>

\* message listener, after the awaited storage.put resolved: broadcast.
PutResolve(n) ==
  /\ pending[n] # <<>>
  /\ Head(pending[n]).op = "put"
  /\ LET s == Head(pending[n]).sess
         data == Head(pending[n]).data
     IN /\ storage' = [storage EXCEPT ![n] = data]
        /\ inbox' = Broadcast(n, s, JSONstringify(data))
  /\ pending' = [pending EXCEPT ![n] = Tail(@)]
  /\ UNCHANGED <<sessions, objOf, userOf, readyState, console, sent, httpBody, others>>

\* message listener, after the awaited storage.put resolved, when the send to
\* the k-th recipient throws: the exception leaves forEach, so the recipients
\* after the k-th are not reached, and the catch block logs it.
PutResolveSendThrows(n, k) ==
  /\ pending[n] # <<>>
  /\ Head(pending[n]).op = "put"
  /\ LET s == Head(pending[n]).sess
         data == Head(pending[n]).data
         to == Recipients(n, s)
     IN /\ k \in 1..Len(to)
        /\ storage' = [storage EXCEPT ![n] = data]
        /\ inbox' = [t \in Sessions |->
                       IF \E i \in 1..(k - 1) : to[i] = t
                       THEN Append(inbox[t], Frame(s, JSONstringify(data)))
                       ELSE inbox[t]]
        /\ console' = Append(console, SendError(to[k]))
  /\ pending' = [pending EXCEPT ![n] = Tail(@)]
  /\ UNCHANGED <<sessions, objOf, userOf, readyState, sent, httpBody, others>>

\* Mutant: a catch block that swallows the error.
PutRejectSilent(n) ==
  /\ pending[n] # <<>>
  /\ Head(pending[n]).op = "put"
  /\ pending' = [pending EXCEPT ![n] = Tail(@)]
  /\ UNCHANGED <<storage, sessions, objOf, userOf, readyState, inbox, console,
                 sent, httpBody, others>>

\* message listener, the awaited storage.put rejected: control passes to the
\* catch block, which logs; the broadcast is skipped.
PutReject(n) ==
  /\ pending[n] # <<>>
  /\ Head(pending[n]).op = "put"
  /\ console' = Append(console, StorageError)
  /\ pending' = [pending EXCEPT ![n] = Tail(@)]
  /\ UNCHANGED <<storage, sessions, objOf, userOf, readyState, inbox, sent,
                 httpBody, others>>

\* The peer or the transport closes the socket: readyState leaves OPEN, the
\* close event is queued.
TransportClose(s) ==
  /\ readyState[s] = "open"
  /\ readyState' = [readyState EXCEPT ![s] = "closed"]
  /\ UNCHANGED <<storage, sessions, pending, objOf, userOf, inbox, console,
                 sent, httpBody, others>>

\* Mutant: a close listener that deletes the oldest session of the set.
CloseEventOldest(s) ==
  /\ readyState[s] = "closed"
  /\ s \in Range(sessions[objOf[s]])
  /\ sessions' = [sessions EXCEPT ![objOf[s]] = Tail(@)]
  /\ UNCHANGED <<storage, pending, objOf, userOf, readyState, inbox, console,
                 sent, httpBody, others>>

\* close listener: this.sessions.delete(server).
CloseEvent(s) ==
  /\ readyState[s] = "closed"
  /\ s \in Range(sessions[objOf[s]])
  /\ sessions' = [sessions EXCEPT ![objOf[s]] = Remove(@, s)]
  /\ UNCHANGED <<storage, pending, objOf, userOf, readyState, inbox, console,
                 sent, httpBody, others>>

\* fetch, HTTP branch for /todos, up to the awaited storage.get.
HttpLoadObj(u) ==
  LET n == DOName(u) IN
  /\ Len(pending[n]) < MaxPending
  /\ LoadOp \notin Range(pending[n])
  /\ pending' = [pending EXCEPT ![n] = Append(@, LoadOp)]
  /\ UNCHANGED <<storage, sessions, objOf, userOf, readyState, inbox, console,
                 sent, httpBody>>

\* A plain HTTP request reaching the object of user u.
HttpLoad(u) == HttpLoadObj(u) /\ UNCHANGED others

\* Mutant: the HTTP branch without its `|| default`.
HttpLoadFinishRaw(n) ==
  /\ pending[n] # <<>>
  /\ Head(pending[n]).op = "load"
  /\ httpBody' = Response(n, storage[n])
  /\ pending' = [pending EXCEPT ![n] = Tail(@)]
  /\ UNCHANGED <<storage, sessions, objOf, userOf, readyState, inbox, console,
                 sent, others>>

\* Mutant: a load that writes what it serves back to storage.
HttpLoadFinishStores(n) ==
  /\ pending[n] # <<>>
  /\ Head(pending[n]).op = "load"
  /\ httpBody' = Response(n, OrDefault(storage[n]))
  /\ storage' = [storage EXCEPT ![n] = OrDefault(storage[n])]
  /\ pending' = [pending EXCEPT ![n] = Tail(@)]
  /\ UNCHANGED <<sessions, objOf, userOf, readyState, inbox, console,
                 sent, others>>

\* fetch, HTTP branch, after the awaited storage.get: the JSON response.
HttpLoadFinish(n) ==
  /\ pending[n] # <<>>
  /\ Head(pending[n]).op = "load"
  /\ httpBody' = Response(n, OrDefault(storage[n]))
  /\ pending' = [pending EXCEPT ![n] = Tail(@)]
  /\ UNCHANGED <<storage, sessions, objOf, userOf, readyState, inbox, console,
                 sent, others>>

\* Mutant: an object that keeps its document in memory only.
EvictLosesStore(n) ==
  /\ pending[n] = <<>>
  /\ incarnation[n] < MaxEvictions
  /\ incarnation' = [incarnation EXCEPT ![n] = @ + 1]
  /\ sessions' = [sessions EXCEPT ![n] = <<>>]
  /\ readyState' = [s \in Sessions |->
                      IF s \in Range(sessions[n]) THEN "closed"
                      ELSE readyState[s]]
  /\ storage' = [storage EXCEPT ![n] = Undefined]
  /\ UNCHANGED <<pending, objOf, userOf, inbox, console, sent, httpBody,
                 rateVars, resolveVars, tabVars>>

\* The host discards the idle instance of object n, and with it the fields of
\* TinyBaseStore: the sockets it held are closed, and the next request runs
\* the constructor again (sessions = new Set()).  What storage.put stored
\* stays.
Evict(n) ==
  /\ pending[n] = <<>>
  /\ incarnation[n] < MaxEvictions
  /\ incarnation' = [incarnation EXCEPT ![n] = @ + 1]
  /\ sessions' = [sessions EXCEPT ![n] = <<>>]
  /\ readyState' = [s \in Sessions |->
                      IF s \in Range(sessions[n]) THEN "closed"
                      ELSE readyState[s]]
  /\ UNCHANGED <<storage, pending, objOf, userOf, inbox, console, sent,
                 httpBody, rateVars, resolveVars, tabVars>>

\* The events of the objects of the users U once reached, with at most m
\* client frames.
ObjStep(U, m) ==
  \/ \E u \in U : ConnectFinish(DOName(u))
  \/ \E s \in Sessions, text \in Payloads : MessageMalformed(s, text, m)
  \/ \E s \in Sessions, text \in Payloads : MessageParsed(s, text, m)
  \/ \E u \in U : PutResolve(DOName(u))
  \/ \E u \in U : PutReject(DOName(u))
  \/ \E s \in Sessions : TransportClose(s)
  \/ \E s \in Sessions : CloseEvent(s)

HubStep(U, m) ==
  \/ \E s \in Sessions, u \in U : Connect(s, u)
  \/ ObjStep(U, m)

\* The plain HTTP requests for the document of the users U.
HttpStep(U) ==
  \/ \E u \in U : HttpLoad(u)
  \/ \E u \in U : HttpLoadFinish(DOName(u))

\* ----------------------------------------------------------------- the page
\* The script of the page served by app.get('/'), one instance per browser
\* tab.  A socket of a page is the socket the object knows as the session
\* of the same number; a tab is named by the number of its first socket, and
\* todos, wsState, up and seen of a number belong to the tab (todos) and to
\* the socket (the others) of that number.
MaxEdits == 2           \* local edits made in all the tabs together

\* What no step of a page touches.
beyond == <<rateVars, resolveVars, incarnation>>

\* let websocket: the socket tab p created last.
CurrentSocket(p) ==
  IF \E s \in Sessions : tabOf[s] = p
  THEN CHOOSE s \in Sessions :
         tabOf[s] = p /\ \A r \in Sessions : tabOf[r] = p => r <= s
  ELSE p

\* `data.tables?.todos || {}`: the todos the page is rendered with.
PageTodos(data) == IF TablesOf(data) = {"todos"} THEN TodosOf(data) ELSE 0

\* The page of user u is loaded in tab t: todos is initialised with the
\* todos of the document the object serves, and connectWebSocket() creates
\* the socket, which the object accepts.
TabOpenPage(t, u) ==
  /\ wsState[t] = "none"
  /\ ConnectObj(t, u)
  /\ todos' = [todos EXCEPT ![t] = PageTodos(OrDefault(storage[DOName(u)]))]
  /\ wsState' = [wsState EXCEPT ![t] = "connecting"]
  /\ tabOf' = [tabOf EXCEPT ![t] = t]
  /\ UNCHANGED <<up, seen, lastEdit, timer, beyond>>

\* The upgrade response arrived: the socket of the tab is OPEN (onopen).
TabOpen(t) ==
  /\ wsState[t] = "connecting"
  /\ CanSend(t)
  /\ wsState' = [wsState EXCEPT ![t] = "open"]
  /\ UNCHANGED <<hubVars, todos, up, seen, lastEdit, tabOf, timer, rateVars,
                 resolveVars>>

\* websocket.onmessage: the next frame of socket t replaces todos of its tab
\* when it has a table todos.
TabReceive(t) ==
  /\ wsState[t] = "open"
  /\ seen[t] < Len(inbox[t])
  /\ LET data == JSONparse(inbox[t][seen[t] + 1].text)
     IN todos' = [todos EXCEPT ![tabOf[t]] =
                    IF TablesOf(data) = {"todos"} THEN TodosOf(data) ELSE @]
  /\ seen' = [seen EXCEPT ![t] = @ + 1]
  /\ UNCHANGED <<hubVars, wsState, up, lastEdit, tabOf, timer, rateVars,
                 resolveVars>>

\* addTodo, toggleTodo, deleteTodo, clearCompleted: todos is changed in
\* place (the result is named by the number of the edit) and sendToServer()
\* sends { tables: { todos }, values: {} } if websocket, the socket the tab
\* created last, is OPEN.
TabEdit(t) ==
  LET c == lastEdit.c + 1
      websocket == CurrentSocket(t)
  IN
  /\ tabOf[t] = t
  /\ lastEdit.c < MaxEdits
  /\ todos' = [todos EXCEPT ![t] = c]
  /\ lastEdit' = [tab |-> t, c |-> c]
  /\ up' = IF wsState[websocket] = "open"
           THEN [up EXCEPT ![websocket] = Append(@, JSONstringify(Doc(c)))]
           ELSE up
  /\ UNCHANGED <<hubVars, wsState, seen, tabOf, timer, rateVars, resolveVars>>

\* The oldest frame tab t sent reaches the message listener of its object.
ServerReceive(t) ==
  /\ up[t] # <<>>
  /\ MessageParsedObj(t, Head(up[t]), MaxEdits)
  /\ up' = [up EXCEPT ![t] = Tail(@)]
  /\ UNCHANGED <<todos, wsState, seen, lastEdit, tabOf, timer, beyond>>

\* Mutant: an error handler that schedules a reconnect too, so that a socket
\* that fails schedules two.
TabCloseTwice(t) ==
  /\ wsState[t] \in {"connecting", "open"}
  /\ readyState[t] = "closed"
  /\ wsState' = [wsState EXCEPT ![t] = "closed"]
  /\ timer' = [timer EXCEPT ![tabOf[t]] = @ + 2]
  /\ UNCHANGED <<hubVars, todos, up, seen, lastEdit, tabOf, rateVars,
                 resolveVars>>

\* websocket.onclose of socket t, whose connection is gone, whether it was
\* open or the attempt failed (onerror, which comes first in that case,
\* schedules nothing): setTimeout(connectWebSocket, 3000).
TabClose(t) ==
  /\ wsState[t] \in {"connecting", "open"}
  /\ readyState[t] = "closed"
  /\ wsState' = [wsState EXCEPT ![t] = "closed"]
  /\ timer' = [timer EXCEPT ![tabOf[t]] = @ + 1]
  /\ UNCHANGED <<hubVars, todos, up, seen, lastEdit, tabOf, rateVars,
                 resolveVars>>

\* A timeout of tab p runs connectWebSocket: new WebSocket(wsUrl) is
\* assigned to websocket; the object of user u accepts it as session t.
TabTimer(p, t, u) ==
  /\ timer[p] > 0
  /\ userOf[p] = u
  /\ ConnectObj(t, u)
  /\ wsState' = [wsState EXCEPT ![t] = "connecting"]
  /\ tabOf' = [tabOf EXCEPT ![t] = p]
  /\ timer' = [timer EXCEPT ![p] = @ - 1]
  /\ UNCHANGED <<todos, up, seen, lastEdit, beyond>>

\* The pages of user u and the object they talk to.
TabStep(u) ==
  \/ \E t \in Sessions : TabOpenPage(t, u)
  \/ ConnectFinish(DOName(u))
  \/ \E t \in Sessions : TabOpen(t)
  \/ \E t \in Sessions : TabReceive(t)
  \/ \E t \in Sessions : TabEdit(t)
  \/ \E t \in Sessions : ServerReceive(t)
  \/ PutResolve(DOName(u))

\* ------------------------------------------------------------ isRateLimited
windowMs    == 60000
maxRequests == 100

MaxWindows == 1         \* window lengths the clock may advance by
MaxJitter  == 1         \* milliseconds around each window boundary
MaxOver    == 2         \* requests an address makes beyond those allowed

Addresses == {"10.0.0.1", "10.0.0.2"}

\* The values Date.now() takes: the instants around the window boundaries.
TimePoints ==
  {k * windowMs + j : k \in 0..MaxWindows, j \in 0..MaxJitter}

NoEntry == [count |-> 0, resetTime |-> -1]

NoWindow == -1

InitRate ==
  /\ now = 0
  /\ rateLimiter = [a \in Addresses |-> NoEntry]
  /\ limited = [a \in Addresses |-> "none"]
  /\ winStart = [a \in Addresses |-> NoWindow]
  /\ winCount = [a \in Addresses |-> 0]

\* Mutant: a window that is over at the instant it expires.
WindowOverInclusive(current, t) ==
  current = NoEntry \/ t >= current.resetTime

\* `!current || now > current.resetTime`
WindowOver(current, t) == current = NoEntry \/ t > current.resetTime

\* Mutant: the comparison off by one.
AtLimitOffByOne(current) == current.count > maxRequests

\* `current.count >= maxRequests`
AtLimit(current) == current.count >= maxRequests

\* Mutant: an increment that is lost, the record written back as it was read.
RateDecisionLost(current, t) ==
  IF WindowOver(current, t)
  THEN [entry |-> [count |-> 1, resetTime |-> t + windowMs], result |-> FALSE]
  ELSE [entry |-> current, result |-> AtLimit(current)]

\* Mutant: the count incremented before it is compared, denied or not.
RateDecisionCountsDenied(current, t) ==
  IF WindowOver(current, t)
  THEN [entry |-> [count |-> 1, resetTime |-> t + windowMs], result |-> FALSE]
  ELSE [entry |-> [current EXCEPT !.count = @ + 1],
        result |-> AtLimit(current)]

\* isRateLimited: the entry it leaves in the map and the value it returns.
RateDecision(current, t) ==
  IF WindowOver(current, t)
  THEN [entry |-> [count |-> 1, resetTime |-> t + windowMs], result |-> FALSE]
  ELSE IF AtLimit(current)
       THEN [entry |-> current, result |-> TRUE]
       ELSE [entry |-> [current EXCEPT !.count = @ + 1], result |-> FALSE]

\* Mutant: one counter for all the addresses, the key of the Map ignored.
RateUpdateShared(clientIP) ==
  LET d == RateDecision(rateLimiter[clientIP], now) IN
  /\ winStart[clientIP] = NoWindow
       \/ now > winStart[clientIP] + windowMs
       \/ winCount[clientIP] < maxRequests + MaxOver
  /\ rateLimiter' = [a \in Addresses |-> d.entry]
  /\ limited' = [limited EXCEPT ![clientIP] =
                   IF d.result THEN "denied" ELSE "allowed"]
  /\ winStart' = [winStart EXCEPT ![clientIP] =
                    IF winStart[clientIP] = NoWindow
                         \/ now > winStart[clientIP] + windowMs
                    THEN now ELSE @]
  /\ winCount' = [winCount EXCEPT ![clientIP] =
                    IF winStart[clientIP] = NoWindow
                         \/ now > winStart[clientIP] + windowMs
                    THEN 1 ELSE @ + 1]
  /\ UNCHANGED now

\* History: a request at t opens a window when the address has none or when
\* more than windowMs passed since its window was opened.
OpensWindow(a, t) == winStart[a] = NoWindow \/ t > winStart[a] + windowMs

RateUpdate(clientIP) ==
  LET d == RateDecision(rateLimiter[clientIP], now) IN
  /\ OpensWindow(clientIP, now) \/ winCount[clientIP] < maxRequests + MaxOver
  /\ rateLimiter' = [rateLimiter EXCEPT ![clientIP] = d.entry]
  /\ limited' = [limited EXCEPT ![clientIP] =
                   IF d.result THEN "denied" ELSE "allowed"]
  /\ winStart' = [winStart EXCEPT ![clientIP] =
                    IF OpensWindow(clientIP, now) THEN now ELSE @]
  /\ winCount' = [winCount EXCEPT ![clientIP] =
                    IF OpensWindow(clientIP, now) THEN 1 ELSE @ + 1]
  /\ UNCHANGED now

\* A call of isRateLimited on its own.
isRateLimited(clientIP) ==
  RateUpdate(clientIP) /\ UNCHANGED <<hubVars, resolveVars, tabVars>>

\* Time passes.
Tick(t) ==
  /\ t \in TimePoints
  /\ t > now
  /\ now' = t
  /\ UNCHANGED <<rateLimiter, limited, winStart, winCount, hubVars, resolveVars,
                 tabVars>>

RateStep ==
  \/ \E a \in Addresses : isRateLimited(a)
  \/ \E t \in TimePoints : Tick(t)

\* ---------------------------------------------------------------- getUserId
\* A string is a sequence of chunks; a chunk is a run of characters that the
\* code under study never splits.  A header or a query parameter is absent
\* (null) or present with a string, possibly the empty one.
MaxHeaderLen == 3       \* chunks in a header value

Null     == [present |-> FALSE, s |-> <<>>]
Str(s)   == [present |-> TRUE, s |-> s]

SeqsUpTo(S, k) == UNION {[1..m -> S] : m \in 0..k}

\* ?userId=...
QueryValues ==
  {Null, Str(<<>>), Str(<<"alice">>), Str(<<"bob">>), Str(<<"anon-", "x">>)}

\* Authorization: the Headers class strips leading and trailing white space
\* from a value, so no header value starts or ends with a blank.
AuthChunks == {"Bearer", " ", "tok", "anon-"}

AuthValues ==
  {Null} \cup
  {Str(h) : h \in {x \in SeqsUpTo(AuthChunks, MaxHeaderLen) :
                     x = <<>> \/ (x[1] # " " /\ x[Len(x)] # " ")}}

\* Cookie: "session=" is the text the regular expression looks for, "; " the
\* separator between two cookies, "x" other text free of both (a name, a
\* value, or a pair such as theme=dark), "anon-" the prefix of the identities
\* the worker synthesizes and hands out in its own cookie.
CookieChunks == {"session=", "; ", "x", "anon-"}

CookieValues ==
  {Null} \cup
  {Str(h) : h \in {x \in SeqsUpTo(CookieChunks, MaxHeaderLen) :
                     x = <<>> \/ (x[1] # "; " /\ x[Len(x)] # "; ")}}

\* `${Date.now()}-${Math.random().toString(36).substr(2, 9)}`
AnonSuffixes == {"1700000000000-k3j9x0q1z", "1700000000001-a8b7c6d5e"}

Requests == [query : QueryValues, auth : AuthValues, cookie : CookieValues]

\* Mutant: a test for null only, which lets the empty string through.
NotNullStr(v) == v.present

\* JavaScript truthiness of a string or null: `if (queryUserId)`.
TruthyStr(v) == v.present /\ v.s # <<>>

\* authHeader?.startsWith('Bearer ')
StartsWithBearer(authHeader) ==
  /\ authHeader.present
  /\ Len(authHeader.s) >= 2
  /\ authHeader.s[1] = "Bearer"
  /\ authHeader.s[2] = " "

\* authHeader.slice(7): 'Bearer ' is seven characters, the first two chunks.
Slice7(h) == SubSeq(h, 3, Len(h))

\* The places where /session=([^;]+)/ can match: "session=" followed by at
\* least one character other than ';'.
MatchStarts(h) ==
  {i \in 1..Len(h) : h[i] = "session=" /\ i < Len(h) /\ h[i + 1] # "; "}

\* [^;]+ is greedy: the capture runs up to the next ';' or the end.
CaptureEnd(h, i) ==
  LET stops == {j \in (i + 1)..Len(h) : h[j] = "; "}
  IN IF stops = {} THEN Len(h)
     ELSE (CHOOSE j \in stops : \A k \in stops : j <= k) - 1

\* Mutant: a capture that stops at the first '-', /session=([^-;]+)/.
SessionMatchToDash(cookieHeader) ==
  LET h == cookieHeader
      starts == MatchStarts(h)
  IN IF starts = {} THEN Null
     ELSE LET i == CHOOSE j \in starts : \A k \in starts : j <= k
          IN Str(SubSeq(h, i + 1, i + 1))

\* cookieHeader.match(/session=([^;]+)/): null, or the capture of the
\* leftmost match.
SessionMatch(cookieHeader) ==
  LET h == cookieHeader
      starts == MatchStarts(h)
  IN IF starts = {} THEN Null
     ELSE LET i == CHOOSE j \in starts : \A k \in starts : j <= k
          IN Str(SubSeq(h, i + 1, CaptureEnd(h, i)))

\* getUserId(request); anon is what Date.now() and Math.random() yield.
getUserId(request, anon) ==
  LET queryUserId == request.query
      authHeader == request.auth
      cookieHeader == request.cookie
  IN IF TruthyStr(queryUserId) THEN queryUserId.s
     ELSE IF StartsWithBearer(authHeader) THEN Slice7(authHeader.s)
     ELSE IF TruthyStr(cookieHeader)
               /\ SessionMatch(cookieHeader.s).present
          THEN SessionMatch(cookieHeader.s).s
     ELSE <<"anon-", anon>>

\* app.all('/todos'): c.req.query('userId'), else getUserId(c.req.raw).
TodosUserId(request, anon) ==
  IF TruthyStr(request.query) THEN request.query.s
  ELSE getUserId(request, anon)

NoRequest == [query |-> Null, auth |-> Null, cookie |-> Null]

\* userId.startsWith('anon-')
StartsWithAnon(id) == id # <<>> /\ id[1] = "anon-"

\* The attributes the worker puts after the cookie pair of its Set-Cookie.
CookieAttributes == "; Path=/; Max-Age=86400; HttpOnly"

\* Mutant: the cookie set for every identity.
RootSetCookieAlways(id) ==
  Str(<<"session=">> \o id \o <<CookieAttributes>>)

\* `session=${userId}; Path=/; Max-Age=86400; HttpOnly`
SessionCookieHeader(id) ==
  Str(<<"session=">> \o id \o <<CookieAttributes>>)

\* app.get('/'): the Set-Cookie header of the response, Null for none.
RootSetCookie(id) ==
  IF StartsWithAnon(id) THEN SessionCookieHeader(id) ELSE Null

InitResolve ==
  /\ req = NoRequest
  /\ route = "none"
  /\ userId = <<>>
  /\ setCookie = Null
  /\ status = 0

\* A request arrives.
InitRequests ==
  /\ req \in Requests
  /\ route = "none"
  /\ userId = <<>>
  /\ setCookie = Null
  /\ status = 0

\* app.get('/') past the rate limiter: the resolution of the user id and the
\* headers and status of the page it answers with.
ResolveRoot(anon) ==
  /\ route = "none"
  /\ route' = "/"
  /\ userId' = getUserId(req, anon)
  /\ setCookie' = RootSetCookie(getUserId(req, anon))
  /\ status' = 200
  /\ UNCHANGED req
  /\ UNCHANGED <<hubVars, rateVars, tabVars>>

\* app.all('/todos') past the rate limiter: the resolution of the user id;
\* the answer is the object's.
ResolveTodos(anon) ==
  /\ route = "none"
  /\ route' = "/todos"
  /\ userId' = TodosUserId(req, anon)
  /\ setCookie' = Null
  /\ status' = 0
  /\ UNCHANGED req
  /\ UNCHANGED <<hubVars, rateVars, tabVars>>

\* What a browser stores of a Set-Cookie header and sends back in its Cookie
\* header: the pair name=value, up to the first ';'.
CookiePair(h) ==
  LET stops == {j \in 1..Len(h) : h[j] \in {CookieAttributes, "; "}}
  IN IF stops = {} THEN h
     ELSE SubSeq(h, 1, (CHOOSE j \in stops : \A k \in stops : j <= k) - 1)

\* The visitor whom GET / sent a Set-Cookie header comes back: the next
\* request carries that cookie and nothing else.  The answer to the earlier
\* request stays on record until this one is resolved.
Revisit ==
  /\ route = "/"
  /\ setCookie.present
  /\ req' = [query |-> Null, auth |-> Null,
             cookie |-> Str(CookiePair(setCookie.s))]
  /\ route' = "none"
  /\ UNCHANGED <<userId, setCookie, status>>
  /\ UNCHANGED <<hubVars, rateVars, tabVars>>

ResolveStep ==
  \/ \E anon \in AnonSuffixes : ResolveRoot(anon)
  \/ \E anon \in AnonSuffixes : ResolveTodos(anon)

\* ------------------------------------------------------------------- routes
MaxUnder == 2           \* requests an address has left when the routes start

\* The address the requests of the routes come from.
RouteAddresses == {"10.0.0.1"}

\* Requests that name a user in the query or in a bearer token.
RouteRequests ==
  {[query |-> Str(<<u>>), auth |-> Null, cookie |-> Null] : u \in Users}
    \cup {[query |-> Null, auth |-> Str(<<"Bearer", " ", u>>), cookie |-> Null] :
            u \in Users}

\* The user whose object `user-${userId}` names, for an identity of one chunk.
ShardUser(id) == id[1]

\* An address of RouteAddresses has made all but MaxUnder of the requests of
\* its window, at time 0; no object has been reached yet.
InitRoutes ==
  /\ InitHub
  /\ InitResolve
  /\ InitTabs
  /\ now = 0
  /\ rateLimiter = [a \in Addresses |->
                      IF a \in RouteAddresses
                      THEN [count |-> maxRequests - MaxUnder,
                            resetTime |-> windowMs]
                      ELSE NoEntry]
  /\ limited = [a \in Addresses |->
                  IF a \in RouteAddresses THEN "allowed" ELSE "none"]
  /\ winStart = [a \in Addresses |->
                   IF a \in RouteAddresses THEN 0 ELSE NoWindow]
  /\ winCount = [a \in Addresses |->
                   IF a \in RouteAddresses THEN maxRequests - MaxUnder ELSE 0]

\* Mutant: the answer of the rate limiter ignored.
RouteDeniedNever(d) == FALSE

\* `if (isRateLimited(clientIP)) return c.text(..., 429)`
RouteDenied(d) == d.result

\* app.get('/'): rate limiting, the resolution of the user id, the fetch of
\* http://localhost/todos from the object of the user, the page.  The cookie
\* and the status of the page, set after the awaited fetch, depend on the
\* user id only.
RouteRoot(clientIP, request, anon) ==
  LET d == RateDecision(rateLimiter[clientIP], now)
      id == getUserId(request, anon)
  IN
  /\ RateUpdate(clientIP)
  /\ req' = request
  /\ route' = "/"
  /\ UNCHANGED tabVars
  /\ IF RouteDenied(d)
     THEN /\ status' = 429
          /\ userId' = <<>>
          /\ setCookie' = Null
          /\ UNCHANGED hubVars
     ELSE /\ userId' = id
          /\ setCookie' = RootSetCookie(id)
          /\ status' = 200
          /\ HttpLoadObj(ShardUser(id))
          /\ UNCHANGED incarnation

\* app.all('/todos'): rate limiting, the resolution of the user id, the
\* request forwarded to the object of the user.  The object accepts an
\* upgrade (socket s); it answers another request from storage when the URL
\* ends with /todos, that is when it has no query, and with 404 otherwise.
RouteTodos(clientIP, request, anon, s, upgrade) ==
  LET d == RateDecision(rateLimiter[clientIP], now)
      id == TodosUserId(request, anon)
  IN
  /\ RateUpdate(clientIP)
  /\ req' = request
  /\ route' = "/todos"
  /\ UNCHANGED tabVars
  /\ setCookie' = Null
  /\ IF RouteDenied(d)
     THEN /\ status' = 429
          /\ userId' = <<>>
          /\ UNCHANGED hubVars
     ELSE /\ userId' = id
          /\ UNCHANGED incarnation
          /\ IF upgrade
             THEN status' = 0 /\ ConnectObj(s, ShardUser(id))
             ELSE IF request.query.present
                  THEN /\ status' = 404
                       /\ UNCHANGED <<storage, sessions, pending, objOf, userOf,
                                      readyState, inbox, console, sent,
                                      httpBody>>
                  ELSE status' = 0 /\ HttpLoadObj(ShardUser(id))

RouteStep ==
  \/ \E a \in RouteAddresses, r \in RouteRequests, anon \in AnonSuffixes :
        RouteRoot(a, r, anon)
  \/ \E a \in RouteAddresses, r \in RouteRequests, anon \in AnonSuffixes,
        s \in Sessions, upgrade \in BOOLEAN :
        RouteTodos(a, r, anon, s, upgrade)

\* ----------------------------------------------------------- specifications
vars == <<hubVars, rateVars, resolveVars, tabVars>>

Init == InitHub /\ InitRate /\ InitResolve /\ InitTabs

\* One shard: every connection resolves to the same user, and all requests
\* are WebSocket upgrades.
Next == HubStep({"alice"}, MaxMsgs)

Spec == Init /\ [][Next]_vars

\* Two shards.
NextShards == HubStep(Users, ShardMsgs) \/ HttpStep(Users)

SpecShards == Init /\ [][NextShards]_vars

\* The rate limiter alone.
NextRate == RateStep

SpecRate == Init /\ [][NextRate]_vars

\* The rate limiter at the instant the windows of its records expire: every
\* address made all but MaxUnder of the requests of a window opened at time 0.
InitEdge ==
  /\ InitHub
  /\ InitResolve
  /\ InitTabs
  /\ now = windowMs
  /\ rateLimiter = [a \in Addresses |->
                      [count |-> maxRequests - MaxUnder, resetTime |-> windowMs]]
  /\ limited = [a \in Addresses |-> "allowed"]
  /\ winStart = [a \in Addresses |-> 0]
  /\ winCount = [a \in Addresses |-> maxRequests - MaxUnder]

NextEdge == RateStep

SpecEdge == InitEdge /\ [][NextEdge]_vars

\* The resolution of the user id alone.
NextResolve == ResolveStep

InitAnyRequest == InitHub /\ InitRate /\ InitRequests /\ InitTabs

SpecResolve == InitAnyRequest /\ [][NextResolve]_vars

\* The resolution of the user id for visitors who come back with the cookie
\* they were sent.
NextCookie == ResolveStep \/ Revisit

SpecCookie == InitAnyRequest /\ [][NextCookie]_vars

\* One shard whose close events are all delivered in the end: the host
\* dispatches the close event of every socket whose transport closed.
SpecClose ==
  Init /\ [][Next]_vars /\ \A s \in Sessions : WF_vars(CloseEvent(s))

\* One shard whose instance may be discarded between two requests.
NextEvict ==
  \/ HubStep({"alice"}, ShardMsgs)
  \/ HttpStep({"alice"})
  \/ Evict(DOName("alice"))

SpecEvict == Init /\ [][NextEvict]_vars

\* One shard whose sends may throw.
NextFaults ==
  \/ HubStep({"alice"}, MaxMsgs)
  \/ \E k \in Sessions : PutResolveSendThrows(DOName("alice"), k)

SpecFaults == Init /\ [][NextFaults]_vars

\* The routes in front of the objects of two users.
NextRoutes ==
  \/ RouteStep
  \/ ObjStep(Users, ShardMsgs)
  \/ \E u \in Users : HttpLoadFinish(DOName(u))

SpecRoutes == InitRoutes /\ [][NextRoutes]_vars

\* The tabs of one user with sockets that stay up and saves that succeed.
\* What is in flight is delivered and what is awaited completes: a frame
\* sent reaches its listener, a storage call settles, a socket accepted
\* opens; when a user edits is up to the user.
NextTabs == TabStep("alice")

SpecTabs ==
  /\ Init
  /\ [][NextTabs]_vars
  /\ WF_vars(ConnectFinish(DOName("alice")))
  /\ WF_vars(PutResolve(DOName("alice")))
  /\ \A t \in Sessions : WF_vars(TabOpen(t))
  /\ \A t \in Sessions : WF_vars(TabReceive(t))
  /\ \A t \in Sessions : WF_vars(ServerReceive(t))

\* The tabs of one user with connections that may drop at any moment.  The
\* browser runs what it has queued: a close event is dispatched and a
\* timeout that is due runs; the object finishes a connect it began.
NextReconnect ==
  \/ \E t \in Sessions : TabOpenPage(t, "alice")
  \/ ConnectFinish(DOName("alice"))
  \/ \E t \in Sessions : TabOpen(t)
  \/ \E t \in Sessions : TabReceive(t)
  \/ \E t \in Sessions : TransportClose(t)
  \/ \E t \in Sessions : CloseEvent(t)
  \/ \E t \in Sessions : TabClose(t)
  \/ \E p, t \in Sessions : TabTimer(p, t, "alice")

SpecReconnect ==
  /\ Init
  /\ [][NextReconnect]_vars
  /\ WF_vars(ConnectFinish(DOName("alice")))
  /\ \A t \in Sessions : WF_vars(TabClose(t))
  /\ \A p \in Sessions : WF_vars(\E t \in Sessions : TabTimer(p, t, "alice"))

\* The routes reached from every address, in front of the objects of two
\* users; every address has made all but MaxUnder of the requests of its
\* window, at time 0.
InitGate ==
  /\ InitHub
  /\ InitResolve
  /\ InitTabs
  /\ now = 0
  /\ rateLimiter = [a \in Addresses |->
                      [count |-> maxRequests - MaxUnder, resetTime |-> windowMs]]
  /\ limited = [a \in Addresses |-> "allowed"]
  /\ winStart = [a \in Addresses |-> 0]
  /\ winCount = [a \in Addresses |-> maxRequests - MaxUnder]

\* One request for each user: alice named in the query, bob in a bearer token.
GateRequests ==
  {[query |-> Str(<<"alice">>), auth |-> Null, cookie |-> Null],
   [query |-> Null, auth |-> Str(<<"Bearer", " ", "bob">>), cookie |-> Null]}

NextGate ==
  \/ \E a \in Addresses, r \in GateRequests, anon \in AnonSuffixes :
        RouteRoot(a, r, anon)
  \/ \E a \in Addresses, r \in GateRequests, anon \in AnonSuffixes,
        s \in Sessions, upgrade \in BOOLEAN :
        RouteTodos(a, r, anon, s, upgrade)
  \/ \E u \in Users : ConnectFinish(DOName(u))
  \/ \E u \in Users : HttpLoadFinish(DOName(u))

SpecGate == InitGate /\ [][NextGate]_vars

\* =================================================================== claims
\* Vocabulary of the claims, stated on the inputs and the observable state.

\* The text is no JSON: JSON.parse cannot parse it.
Unparseable(text) == text.val.kind = "garbage"

\* The value is a document: one object with the regions tables and values.
IsDocument(v) == v.kind = "doc"

\* The document a shard currently serves: what was stored, or the default
\* when nothing (or nothing JavaScript holds true) was stored.
CurrentDocument(n) ==
  IF storage[n] = Undefined \/ storage[n] = JsonNull
  THEN DefaultDoc
  ELSE storage[n]

\* The frame carries the value v.
Carries(frame, v) == ~Unparseable(frame.text) /\ frame.text.val = v

\* t is an open, registered session of object n.
LiveIn(t, n) == t \in Range(sessions[n]) /\ readyState[t] = "open"

\* This step ends the storage call at the head of n's queue, of kind op.
Settles(n, op) ==
  /\ pending[n] # <<>>
  /\ Head(pending[n]).op = op
  /\ pending'[n] = Tail(pending[n])

\* This step delivers exactly one more frame to t, carrying v, sent by a.
GetsOne(t, a, v) ==
  /\ Len(inbox'[t]) = Len(inbox[t]) + 1
  /\ SubSeq(inbox'[t], 1, Len(inbox[t])) = inbox[t]
  /\ inbox'[t][Len(inbox'[t])].from = a
  /\ Carries(inbox'[t][Len(inbox'[t])], v)

\* The handler of the write at the head of n's queue completes in this step
\* and the sessions live in n are served as a write of a document must be:
\* one frame for each but the sender, none for the sender or anyone else.
FanOutAtHead(n) ==
  LET a == Head(pending[n]).sess
      d == Head(pending[n]).data
  IN \A t \in Sessions :
       IF t # a /\ LiveIn(t, n)
       THEN GetsOne(t, a, d)
       ELSE inbox'[t] = inbox[t]

\* C1: when a session A sends a well-formed document d, every other open
\* session of the shard receives exactly one frame equal to d for that write
\* and A receives none.
C1_FanOut ==
  [][\A n \in Names :
       (Settles(n, "put") /\ IsDocument(Head(pending[n]).data))
          => FanOutAtHead(n)]_vars

\* C4: a step in which a session sends an unparseable text changes neither a
\* stored document nor any inbox, and leaves every session, the sender
\* included, as open and as registered as it was, with no storage call
\* queued; the sender can therefore still send.
C4_MalformedIsIgnored ==
  [][(Len(sent') = Len(sent) + 1 /\ Unparseable(sent'[Len(sent')].text))
       => /\ storage' = storage
          /\ inbox' = inbox
          /\ sessions' = sessions
          /\ readyState' = readyState
          /\ pending' = pending
          /\ LET s == sent'[Len(sent')].sess
             IN /\ readyState'[s] = "open"
                /\ s \in Range(sessions'[objOf'[s]])]_vars

\* C4 witness: a session sent an unparseable text and then a document, which
\* was stored and broadcast while the session stayed open.
C4_Witness ==
  \E s \in Sessions, t \in Sessions :
    /\ Len(sent) = 2
    /\ sent[1].sess = s /\ Unparseable(sent[1].text)
    /\ sent[2].sess = s /\ IsDocument(sent[2].text.val)
    /\ storage[objOf[s]] = sent[2].text.val
    /\ LiveIn(s, objOf[s])
    /\ t # s
    /\ inbox[t] # <<>>
    /\ inbox[t][Len(inbox[t])].from = s

\* C5: when the save of a document d fails (the step that logs the storage
\* error), d is still broadcast to every other open session of the shard.
C5_BroadcastDespiteFailedSave ==
  [][\A n \in Names :
       (/\ Settles(n, "put")
        /\ IsDocument(Head(pending[n]).data)
        /\ console' = Append(console, StorageError))
          => FanOutAtHead(n)]_vars

\* C6: while the handler of a message is between its parse and its broadcast
\* (its storage.put is awaited), the actor handles no other event of the
\* shard: the next thing that happens to the shard is that write completing.
C6_OneEventAtATime ==
  [][\A n \in Names :
       (\E i \in 1..Len(pending[n]) : pending[n][i].op = "put")
          => \/ (pending'[n] = pending[n] /\ sessions'[n] = sessions[n])
             \/ (Settles(n, "put") /\ sessions'[n] = sessions[n])]_vars

\* The initial frames a session has been sent.
InitialFrames(s) == {i \in 1..Len(inbox[s]) : inbox[s][i].from = 0}

\* C7: the connect of a session that is open when its storage read returns
\* sends it exactly one initial frame, carrying the document the shard serves
\* at that moment; no session is ever sent a second initial frame, and a
\* session whose connect has not completed has none.
C7_OneInitialFrame ==
  /\ [](\A s \in Sessions :
          /\ Cardinality(InitialFrames(s)) <= 1
          /\ (objOf[s] # NoObj /\ GetOp(s) \in Range(pending[objOf[s]]))
                => InitialFrames(s) = {})
  /\ [][\A n \in Names :
          Settles(n, "get")
            => LET s == Head(pending[n]).sess
               IN /\ readyState[s] = "open"
                     => GetsOne(s, 0, CurrentDocument(n))
                  /\ \A t \in Sessions \ {s} : inbox'[t] = inbox[t]]_vars

\* C7 witness: a session that connected after a document was stored and never
\* sent anything holds exactly that document as its only frame.
C7_Witness ==
  \E s \in Sessions :
    /\ objOf[s] # NoObj
    /\ GetOp(s) \notin Range(pending[objOf[s]])
    /\ \A i \in 1..Len(sent) : sent[i].sess # s
    /\ IsDocument(storage[objOf[s]])
    /\ Len(inbox[s]) = 1
    /\ inbox[s][1].from = 0
    /\ Carries(inbox[s][1], storage[objOf[s]])

\* C8: what is stored and every frame sent is a document: a text that parses
\* to anything else is neither stored nor broadcast.
C8_OnlyDocuments ==
  /\ \A n \in Names : storage[n] = Undefined \/ IsDocument(storage[n])
  /\ \A s \in Sessions : \A i \in 1..Len(inbox[s]) :
        \E v \in Docs \cup {DefaultDoc} : Carries(inbox[s][i], v)

\* C3: shards are isolated.  Every broadcast frame a session holds was sent
\* by a session of the same user, and a step changes the stored value of a
\* user's shard only by completing a write of a session of that user.
C3_Isolation ==
  /\ [](\A s \in Sessions : \A i \in 1..Len(inbox[s]) :
          inbox[s][i].from # 0 => userOf[inbox[s][i].from] = userOf[s])
  /\ [][\A u \in Users :
          storage'[DOName(u)] # storage[DOName(u)]
            => /\ Settles(DOName(u), "put")
               /\ userOf[Head(pending[DOName(u)]).sess] = u]_vars

\* C3 witness: alice's shard stored a document and broadcast it to a second
\* session of alice, while bob's shard stores nothing and bob's session holds
\* the default document only.
C3_Witness ==
  \E a \in Sessions, b \in Sessions, c \in Sessions :
    /\ userOf[a] = "alice" /\ userOf[b] = "alice" /\ userOf[c] = "bob"
    /\ IsDocument(storage[DOName("alice")])
    /\ storage[DOName("alice")] # DefaultDoc
    /\ inbox[b] # <<>>
    /\ inbox[b][Len(inbox[b])] = Frame(a, JSONstringify(storage[DOName("alice")]))
    /\ storage[DOName("bob")] = Undefined
    /\ inbox[c] = <<Frame(0, JSONstringify(DefaultDoc))>>

\* C2: for every address, the request that isRateLimited answered last was
\* denied exactly when it was the 101st or a later request of its window,
\* counting from the request that opened the window; a request arriving more
\* than 60 seconds after the window was opened opens a new one (and counts
\* as its first, so it is allowed); the entry kept for the address expires
\* 60 seconds after its window was opened.
C2_HundredPerWindow ==
  \A a \in Addresses :
    limited[a] # "none"
      => /\ (limited[a] = "denied") <=> (winCount[a] > 100)
         /\ rateLimiter[a].resetTime = winStart[a] + 60000

\* C2 witness: an address was denied its 102nd request of a window.
C2_Witness ==
  \E a \in Addresses : winCount[a] = 102 /\ limited[a] = "denied"

\* The value of the first cookie named session that has a value, in a Cookie
\* header whose cookies are separated by "; "; Null when there is none.
SessionCookie(cookie) ==
  LET h == cookie.s
      named == {i \in 1..Len(h) :
                  /\ h[i] = "session="
                  /\ (i = 1 \/ h[i - 1] = "; ")
                  /\ i < Len(h) /\ h[i + 1] # "; "}
  IN IF ~cookie.present \/ named = {} THEN Null
     ELSE LET i == CHOOSE j \in named : \A k \in named : j <= k
              ends == {j \in (i + 1)..Len(h) :
                         j = Len(h) \/ h[j + 1] = "; "}
          IN Str(SubSeq(h, i + 1, CHOOSE j \in ends : \A k \in ends : j <= k))

\* The token of an Authorization header of the form 'Bearer <token>'.
BearerToken(auth) ==
  IF auth.present /\ Len(auth.s) >= 3 /\ auth.s[1] = "Bearer" /\ auth.s[2] = " "
  THEN Str(SubSeq(auth.s, 3, Len(auth.s)))
  ELSE Null

IsAnonymous(id) == Len(id) = 2 /\ id[1] = "anon-"

\* C9: getUserId resolves in a fixed order, first match wins: the userId
\* query parameter, else the token of a Bearer authorization header, else the
\* value of the session cookie, else a synthesized anon- identity.
C9_ResolutionOrder ==
  route = "/" =>
    IF req.query.present /\ req.query.s # <<>> THEN userId = req.query.s
    ELSE IF BearerToken(req.auth).present THEN userId = BearerToken(req.auth).s
    ELSE IF SessionCookie(req.cookie).present
         THEN userId = SessionCookie(req.cookie).s
    ELSE IsAnonymous(userId)

\* No source of the request carries an identity: no or an empty userId
\* parameter, no Authorization header that starts with 'Bearer ', no Cookie
\* header in which "session=" is followed by a value.
NothingUsable(r) ==
  /\ ~r.query.present \/ r.query.s = <<>>
  /\ ~r.auth.present \/ Len(r.auth.s) < 2
       \/ r.auth.s[1] # "Bearer" \/ r.auth.s[2] # " "
  /\ ~r.cookie.present
       \/ \A i \in 1..Len(r.cookie.s) :
            r.cookie.s[i] = "session="
              => (i = Len(r.cookie.s) \/ r.cookie.s[i + 1] = "; ")

\* C10: whatever the query, the Authorization header and the Cookie header
\* are, both routes resolve to a non-empty identity, and to an anonymous one
\* when no source is usable.
C10_AlwaysAnIdentity ==
  route # "none" =>
    /\ userId # <<>>
    /\ \A i \in 1..Len(userId) : userId[i] # ""
    /\ NothingUsable(req) => IsAnonymous(userId)

\* C10 witness: a request with an empty userId parameter, an Authorization
\* header that is no bearer token and a session cookie without value was
\* resolved to an anonymous identity.
C10_Witness ==
  /\ route = "/todos"
  /\ req.query = Str(<<>>)
  /\ req.auth = Str(<<"Bearer">>)
  /\ req.cookie = Str(<<"x", "; ", "session=">>)
  /\ IsAnonymous(userId)

\* The Set-Cookie header is the session cookie of the resolved identity:
\* name session, path /, max-age 86400, HttpOnly.
IsSessionSetCookie(h, id) ==
  /\ h.present
  /\ h.s = <<"session=">> \o id \o <<"; Path=/; Max-Age=86400; HttpOnly">>

\* C18 as stated: GET / sets the session cookie exactly when the identity of
\* the request was synthesized by the anonymous branch, that is when no
\* source of the request was usable.
C18_CookieIffSynthesized ==
  route = "/" =>
    /\ setCookie.present <=> NothingUsable(req)
    /\ setCookie.present => IsSessionSetCookie(setCookie, userId)

\* C18 amended: GET / sets the session cookie exactly when the resolved
\* identity begins with anon-, which covers every synthesized identity and
\* also an identity beginning with anon- that the query parameter, the
\* bearer header or a cookie supplied; /todos never sets it.
C18_CookieIffAnonPrefix ==
  /\ route = "/" =>
        /\ setCookie.present <=> (userId # <<>> /\ userId[1] = "anon-")
        /\ setCookie.present => IsSessionSetCookie(setCookie, userId)
        /\ NothingUsable(req) => setCookie.present
  /\ route = "/todos" => ~setCookie.present

\* C18 witness: a visitor returning with the cookie session=anon-x, and
\* nothing else, is resolved through the cookie and is sent the cookie again.
C18_Witness ==
  /\ route = "/"
  /\ req = [query |-> Null, auth |-> Null,
            cookie |-> Str(<<"session=", "anon-", "x">>)]
  /\ userId = <<"anon-", "x">>
  /\ IsSessionSetCookie(setCookie, userId)

\* C11: a step in which an address makes a request that the rate limiter
\* denies answers 429, resolves no identity and leaves every object as it
\* was (stored values, session sets, sockets, queued storage calls); and the
\* routes answer 429 only to a denied request.
C11_DeniedTouchesNothing ==
  [][\A a \in Addresses :
       winCount'[a] = winCount[a] + 1
         => /\ limited'[a] = "denied"
               => /\ status' = 429
                  /\ userId' = <<>>
                  /\ hubVars' = hubVars
            /\ status' = 429 => limited'[a] = "denied"]_vars

\* C11 witness: a request was answered 429 while a shard held a stored
\* document and two live sessions.
C11_Witness ==
  /\ status = 429
  /\ userId = <<>>
  /\ \E n \in Names :
       /\ IsDocument(storage[n])
       /\ \E s \in Sessions, t \in Sessions :
            s # t /\ LiveIn(s, n) /\ LiveIn(t, n)

\* The step completes the write at the head of n's queue and the send of
\* its broadcast frame to the sibling t throws.
SendFailsTo(n, t) ==
  /\ Settles(n, "put")
  /\ console' = Append(console, SendError(t))

\* C12: when the send of the broadcast frame to one sibling fails, every
\* other open sibling of the shard still receives exactly that frame, and
\* the sender's socket stays open and registered for its later messages.
C12_OthersStillReceive ==
  [][\A n \in Names : \A t \in Sessions :
       SendFailsTo(n, t)
         => LET a == Head(pending[n]).sess
                d == Head(pending[n]).data
            IN /\ \A r \in Sessions \ {a, t} :
                    LiveIn(r, n) => GetsOne(r, a, d)
               /\ readyState'[a] = readyState[a]
               /\ sessions'[n] = sessions[n]]_vars

\* C13: when the send of the broadcast frame to a sibling fails, that
\* sibling is removed from the shard's live set.
C13_FailedSiblingRemoved ==
  [][\A n \in Names : \A t \in Sessions :
       SendFailsTo(n, t) => t \notin Range(sessions'[n])]_vars

\* The entries of the console that are of kind k.
Logged(k) == {i \in 1..Len(console) : console[i].kind = k}

\* C14: the completion of a write either saves and broadcasts the value and
\* logs nothing, or saves and broadcasts nothing and logs the storage error,
\* an entry that differs from the one a malformed payload leaves; the
\* entries of a malformed payload are as many as the malformed payloads
\* sent, so a failed save never shows as one of them, nor as no entry.
C14_SaveFailureIsLogged ==
  /\ [][\A n \in Names :
          Settles(n, "put")
            => \/ /\ storage'[n] = Head(pending[n]).data
                  /\ FanOutAtHead(n)
                  /\ console' = console
               \/ /\ storage' = storage
                  /\ inbox' = inbox
                  /\ console' = Append(console, StorageError)
                  /\ StorageError # SyntaxError]_vars
  /\ [](Cardinality(Logged("SyntaxError"))
          = Cardinality({i \in 1..Len(sent) : Unparseable(sent[i].text)}))

\* C14 witness: a malformed payload and a failed save each left their entry.
C14_Witness ==
  /\ Len(console) = 2
  /\ Logged("SyntaxError") # {}
  /\ Logged("StorageError") # {}
  /\ \A n \in Names : storage[n] = Undefined

\* C15: once the save of a document d has failed, d is the document the
\* shard serves: a session connecting next, with no write in between, is
\* sent d as its initial frame.
C15_FailedSaveStillCurrent ==
  [][\A n \in Names :
       (/\ Settles(n, "put")
        /\ IsDocument(Head(pending[n]).data)
        /\ console' = Append(console, StorageError))
          => CurrentDocument(n)' = Head(pending[n]).data]_vars

\* C16: for every shard, a save that succeeds stores exactly the document
\* saved, nothing but a save changes what is stored, and a load (the storage
\* read of an HTTP request or of a connect) of a shard that stores a
\* document returns that document; so a load that follows a successful save
\* of d with no save in between returns d.
C16_SaveThenLoad ==
  [][\A n \in Names :
       /\ (Settles(n, "put") /\ console' = console)
            => storage'[n] = Head(pending[n]).data
       /\ storage'[n] # storage[n] => Settles(n, "put")
       /\ (Settles(n, "load") /\ IsDocument(storage[n]))
            => /\ httpBody'.obj = n
               /\ ~Unparseable(httpBody'.body)
               /\ httpBody'.body.val = storage[n]
       /\ (/\ Settles(n, "get")
           /\ IsDocument(storage[n])
           /\ readyState[Head(pending[n]).sess] = "open")
            => GetsOne(Head(pending[n]).sess, 0, storage[n])]_vars

\* C16 witness: bob's shard stores a document a session saved, and the last
\* HTTP response, a load of that shard, carries it.
C16_Witness ==
  LET n == DOName("bob") IN
  /\ sent # <<>>
  /\ IsDocument(sent[1].text.val)
  /\ storage[n] = sent[1].text.val
  /\ httpBody.obj = n
  /\ httpBody.body.val = storage[n]
  /\ pending[n] = <<>>

\* C17: requests of one identity reach the object of one shard key, whatever
\* instance of it is live; a step that discards the instance of an object
\* changes neither what is stored nor the document the shard serves; and
\* every HTTP load answers with, and every connect sends, the document the
\* shard serves, which is the last one saved (C16) or the default.
C17_EvictionKeepsDocument ==
  /\ [](\A s \in Sessions, t \in Sessions :
          (objOf[s] # NoObj /\ objOf[t] # NoObj /\ userOf[s] = userOf[t])
            => objOf[s] = objOf[t])
  /\ [][\A n \in Names :
          /\ incarnation'[n] # incarnation[n]
               => /\ storage' = storage
                  /\ CurrentDocument(n)' = CurrentDocument(n)
                  /\ inbox' = inbox
                  /\ httpBody' = httpBody
          /\ Settles(n, "load")
               => /\ httpBody'.obj = n
                  /\ ~Unparseable(httpBody'.body)
                  /\ httpBody'.body.val = CurrentDocument(n)
          /\ (Settles(n, "get") /\ readyState[Head(pending[n]).sess] = "open")
               => GetsOne(Head(pending[n]).sess, 0, CurrentDocument(n))]_vars

\* C17 witness: the instance of a shard that stores a saved document was
\* discarded; a session that connected to the new instance holds that
\* document as its initial frame and an HTTP load answered with it.
C17_Witness ==
  \E n \in Names, s \in Sessions :
    /\ incarnation[n] = 1
    /\ IsDocument(storage[n])
    /\ storage[n] # DefaultDoc
    /\ LiveIn(s, n)
    /\ inbox[s] = <<Frame(0, JSONstringify(storage[n]))>>
    /\ httpBody.obj = n
    /\ httpBody.body.val = storage[n]
    /\ pending[n] = <<>>

\* The session was registered by an object and is in its live set no more.
Removed(s) == objOf[s] # NoObj /\ s \notin Range(sessions[objOf[s]])

C20_DisconnectFrame ==
  [][\A s \in Sessions :
       (~Removed(s) /\ Removed(s)')
          => LET n == objOf[s] IN
             /\ objOf[s] # NoObj
             /\ Range(sessions'[n]) = Range(sessions[n]) \ {s}
             /\ Len(sessions'[n]) = Len(sessions[n]) - 1
             /\ \A i \in 1..Len(sessions'[n]) : \A j \in 1..Len(sessions'[n]) :
                  i < j => \E k \in 1..Len(sessions[n]) :
                             \E l \in 1..Len(sessions[n]) :
                               /\ k < l
                               /\ sessions[n][k] = sessions'[n][i]
                               /\ sessions[n][l] = sessions'[n][j]
             /\ \A m \in Names \ {n} : sessions'[m] = sessions[m]
             /\ storage' = storage
             /\ readyState' = readyState
             /\ inbox' = inbox
             /\ pending' = pending
             /\ httpBody' = httpBody
             /\ console' = console
             /\ rateLimiter' = rateLimiter]_vars

\* C20 witness: a session of alice was removed while another session of
\* alice, holding a broadcast frame, and a session of bob stay live, and
\* alice's shard stores a document.
C20_Witness ==
  \E s \in Sessions, t \in Sessions, b \in Sessions :
    /\ userOf[s] = "alice" /\ Removed(s)
    /\ userOf[t] = "alice" /\ LiveIn(t, objOf[t])
    /\ userOf[b] = "bob" /\ LiveIn(b, objOf[b])
    /\ IsDocument(storage[objOf[s]])
    /\ Len(inbox[t]) = 2

\* This step queues the storage read of an HTTP load of object n.
IssuesLoad(n) == pending'[n] = Append(pending[n], LoadOp)

\* C21: the HTTP load path is read-only.  Neither the step that takes the
\* request nor the step that answers it changes a stored value, a live set,
\* a socket or an inbox (no frame is sent), and the answer is the document
\* the shard serves at that moment.
C21_HttpLoadReadOnly ==
  [][\A n \in Names :
       /\ IssuesLoad(n)
            => /\ storage' = storage
               /\ sessions' = sessions
               /\ readyState' = readyState
               /\ inbox' = inbox
               /\ httpBody' = httpBody
       /\ Settles(n, "load")
            => /\ storage' = storage
               /\ sessions' = sessions
               /\ readyState' = readyState
               /\ inbox' = inbox
               /\ httpBody' = Response(n, CurrentDocument(n))]_vars

\* C21 witness: a shard with two live sessions, one of which saved a
\* document, answered an HTTP load with that document; the instance was
\* never discarded and the sibling holds its two frames only.
C21_Witness ==
  \E n \in Names, s \in Sessions, t \in Sessions :
    /\ incarnation[n] = 0
    /\ LiveIn(s, n) /\ LiveIn(t, n) /\ s # t
    /\ sent # <<>> /\ sent[1].sess = s
    /\ IsDocument(storage[n]) /\ storage[n] = sent[1].text.val
    /\ httpBody = Response(n, storage[n])
    /\ pending[n] = <<>>
    /\ Len(inbox[t]) = 2
    /\ inbox[s] = <<Frame(0, JSONstringify(DefaultDoc))>>

\* This step is a request from address a: the history of a's window moves.
RequestFrom(a) == winCount'[a] # winCount[a] \/ winStart'[a] # winStart[a]

\* C22: the rate limiter is scoped by address and shared by the routes.  The
\* answer an address got last is "denied" exactly when it was the 101st or a
\* later request from that address in its window, whichever route and user
\* its requests named; a step changes the record or the answer of an address
\* only if it is a request from that address, and a request from one address
\* is a request from no other.
C22_AddressScoped ==
  /\ [](\A a \in Addresses :
          (limited[a] = "denied") <=> (winCount[a] > maxRequests))
  /\ [][\A a \in Addresses :
          /\ (rateLimiter'[a] # rateLimiter[a] \/ limited'[a] # limited[a])
               => RequestFrom(a)
          /\ RequestFrom(a)
               => \A b \in Addresses \ {a} :
                    /\ rateLimiter'[b] = rateLimiter[b]
                    /\ limited'[b] = limited[b]
                    /\ ~RequestFrom(b)]_vars

\* C22 witness: one address was denied its 101st request while the other,
\* one request short of its limit, was allowed; the requests reached both
\* endpoints and the shards of both users.
C22_Witness ==
  \E a \in Addresses, b \in Addresses, s \in Sessions, t \in Sessions :
    /\ limited[a] = "denied" /\ winCount[a] = maxRequests + 1
    /\ limited[b] = "allowed" /\ winCount[b] = maxRequests - 1
    /\ rateLimiter[b].count = maxRequests - 1
    /\ userOf[s] = "alice" /\ userOf[t] = "bob"
    /\ httpBody # NoResponse

\* C29: every record of the rate limiter has a count from 1 to 100, and a
\* request that is denied leaves the record of its address as it was, count
\* and expiry alike.
C29_CountInRange ==
  /\ [](\A a \in Addresses :
          rateLimiter[a] # NoEntry
            => (rateLimiter[a].count >= 1 /\ rateLimiter[a].count <= 100))
  /\ [][\A a \in Addresses :
          (RequestFrom(a) /\ limited'[a] = "denied")
            => rateLimiter'[a] = rateLimiter[a]]_vars

\* C29 witness: an address was denied twice in the window it opened at time
\* 0, the second time after the clock moved, and its record still counts 100
\* and expires at 60000.
C29_Witness ==
  \E a \in Addresses :
    /\ winStart[a] = 0
    /\ winCount[a] = maxRequests + 2
    /\ limited[a] = "denied"
    /\ now = 1
    /\ rateLimiter[a] = [count |-> 100, resetTime |-> 60000]

\* C30: a request at time t from an address whose record expires at e
\* replaces the record by count 1 and expiry t + 60000, and is allowed, when
\* t > e; when t <= e, t = e included, the expiry stays and the request is
\* counted in the old window (the count grows by one, or stays at 100 when
\* the request is denied).
C30_StrictExpiry ==
  [][\A a \in Addresses :
       (RequestFrom(a) /\ rateLimiter[a] # NoEntry)
          => LET current == rateLimiter[a] IN
             IF now > current.resetTime
             THEN /\ rateLimiter'[a] = [count |-> 1, resetTime |-> now + 60000]
                  /\ limited'[a] = "allowed"
             ELSE /\ rateLimiter'[a].resetTime = current.resetTime
                  /\ rateLimiter'[a].count =
                       IF current.count < 100 THEN current.count + 1 ELSE 100
                  /\ winStart'[a] = winStart[a]]_vars

\* C30 witness: at 60001 one address holds a record of the window opened at
\* 0 that counts one request made at 60000, the instant of its expiry, and
\* the other a record opened at 60001: count 1, expiry 120001.
C30_Witness ==
  \E a \in Addresses, b \in Addresses :
    /\ now = 60001
    /\ winStart[a] = 0
    /\ rateLimiter[a] = [count |-> maxRequests - MaxUnder + 1, resetTime |-> 60000]
    /\ limited[a] = "allowed"
    /\ winStart[b] = 60001
    /\ rateLimiter[b] = [count |-> 1, resetTime |-> 120001]
    /\ limited[b] = "allowed"

\* What this step returns for the storage read at the head of n's queue: the
\* body of the HTTP answer of a load, the frame sent to the open socket of a
\* connect.
Returned(n) ==
  IF Head(pending[n]).op = "load"
  THEN httpBody'.body.val
  ELSE inbox'[Head(pending[n]).sess][Len(inbox'[Head(pending[n]).sess])].text.val

\* This step ends a storage read of n that returns something: a load, or the
\* read of a connect whose socket is still open.
Loads(n) ==
  \/ Settles(n, "load")
  \/ (Settles(n, "get") /\ readyState[Head(pending[n]).sess] = "open")

\* C25 as stated: a read of a shard under which nothing was stored returns
\* the document {tables:{}, values:{}}, whose tables region is empty.
C25_DefaultIsEmptyShape ==
  [][\A n \in Names :
       (Loads(n) /\ storage[n] = Undefined)
          => (IsDocument(Returned(n)) /\ TablesOf(Returned(n)) = {})]_vars

\* C25, amended: a read of a shard under which nothing was stored returns
\* the document {tables:{todos:{}}, values:{}}: its tables region holds the
\* table todos, and that table is empty.
C25_DefaultHasEmptyTodos ==
  [][\A n \in Names :
       (Loads(n) /\ storage[n] = Undefined)
          => /\ IsDocument(Returned(n))
             /\ TablesOf(Returned(n)) = {"todos"}
             /\ TodosOf(Returned(n)) = TodosOf(Doc(0))]_vars

\* C25 witness: a shard that stores nothing, also after its instance was
\* discarded, answered an HTTP load and sent an initial frame, both with a
\* document that has the table todos.
C25_Witness ==
  \E n \in Names, s \in Sessions :
    /\ storage[n] = Undefined
    /\ incarnation[n] = 1
    /\ LiveIn(s, n)
    /\ Len(inbox[s]) = 1
    /\ TablesOf(inbox[s][1].text.val) = {"todos"}
    /\ httpBody.obj = n
    /\ TablesOf(httpBody.body.val) = {"todos"}
    /\ pending[n] = <<>>

\* The text {"tables":{"todos":{}},"values":{}}.
EmptyTodosText == Text(Doc(0), FALSE)

\* No session of shard n ever sent a frame.
NeverWritten(n) ==
  \A i \in 1..Len(sent) : objOf[sent[i].sess] # n

\* C26: a shard that was never written stores nothing, whatever the other
\* shards store; and for a shard that stores nothing, an HTTP load answers
\* with the text {"tables":{"todos":{}},"values":{}} and a connect sends
\* that text as the one initial frame of its socket.
C26_EmptyStoreDefault ==
  /\ [](\A n \in Names : NeverWritten(n) => storage[n] = Undefined)
  /\ [][\A n \in Names :
          storage[n] = Undefined
            => /\ Settles(n, "load")
                    => httpBody' = [obj |-> n, body |-> EmptyTodosText]
               /\ (Settles(n, "get") /\ readyState[Head(pending[n]).sess] = "open")
                    => inbox'[Head(pending[n]).sess] =
                         Append(inbox[Head(pending[n]).sess],
                                Frame(0, EmptyTodosText))]_vars

\* C26 witness: bob's shard stores a document one of its sessions saved,
\* while alice's shard, never written, answered the last HTTP load with the
\* default text and sent it to alice's session as its initial frame.
C26_Witness ==
  \E a \in Sessions, b \in Sessions :
    /\ userOf[a] = "alice" /\ userOf[b] = "bob"
    /\ sent # <<>> /\ sent[1].sess = b
    /\ IsDocument(storage[DOName("bob")])
    /\ storage[DOName("bob")] = sent[1].text.val
    /\ NeverWritten(DOName("alice"))
    /\ httpBody = [obj |-> DOName("alice"), body |-> EmptyTodosText]
    /\ inbox[a] = <<Frame(0, EmptyTodosText)>>

\* The last frame passed to the socket of t.
LastFrame(t) == inbox'[t][Len(inbox'[t])]

\* C27: a step that sends a broadcast frame to a session t sends it one
\* frame, as the step in which the save of the frame's value d to the shard
\* of t completes: d is what the shard stores after the step.  The frame
\* names as its sender a session of the same shard that sent a payload
\* spelling d, and it carries the whole of d and nothing else.
C27_SavedThenBroadcast ==
  [][\A t \in Sessions :
       (inbox'[t] # inbox[t] /\ LastFrame(t).from # 0)
          => LET f == LastFrame(t)
                 n == objOf[t]
             IN /\ inbox'[t] = Append(inbox[t], f)
                /\ Settles(n, "put")
                /\ Head(pending[n]).sess = f.from
                /\ storage'[n] = f.text.val
                /\ objOf[f.from] = n
                /\ f.text = JSONstringify(f.text.val)
                /\ \E i \in 1..Len(sent) :
                     /\ sent[i].sess = f.from
                     /\ ~Unparseable(sent[i].text)
                     /\ sent[i].text.val = f.text.val]_vars

\* C27 witness: two payloads were sent in a shard, the first a document
\* spelled with white space; a sibling holds a frame for each of the two,
\* in the order sent, and the shard stores the second.
C27_Witness ==
  \E a \in Sessions, t \in Sessions :
    /\ a # t
    /\ Len(sent) = 2
    /\ sent[1].sess = a /\ sent[2].sess = a
    /\ sent[1].text.ws
    /\ IsDocument(sent[1].text.val) /\ IsDocument(sent[2].text.val)
    /\ sent[1].text.val # sent[2].text.val
    /\ Len(inbox[t]) = 3
    /\ inbox[t][2] = Frame(a, JSONstringify(sent[1].text.val))
    /\ inbox[t][3] = Frame(a, JSONstringify(sent[2].text.val))
    /\ storage[objOf[t]] = sent[2].text.val

\* The frames sessions of shard n sent that JSON.parse accepts.
ValidSent(n) ==
  {i \in 1..Len(sent) : objOf[sent[i].sess] = n /\ ~Unparseable(sent[i].text)}

\* The value of the last of them, Undefined when there is none.
LastValidPayload(n) ==
  IF ValidSent(n) = {}
  THEN Undefined
  ELSE sent[CHOOSE i \in ValidSent(n) : \A j \in ValidSent(n) : j <= i].text.val

\* No message handler of shard n is waiting for its storage.put.
HandlersDone(n) == \A i \in 1..Len(pending[n]) : pending[n][i].op # "put"

\* C28: once all message handlers of a shard have completed, what the shard
\* stores is, in full, the value of the last valid message it received, and
\* nothing (so that the default is served) when it received none.
C28_LastWriterWins ==
  \A n \in Names : HandlersDone(n) => storage[n] = LastValidPayload(n)

\* The save of the todos c has completed in shard n: a frame carrying them
\* was received from one of its sessions and its storage.put is not awaited
\* any more.  (Where every save succeeds, as in SpecTabs, the shard stored
\* them at that moment.)
Saved(n, c) ==
  /\ \E i \in 1..Len(sent) :
       /\ objOf[sent[i].sess] = n
       /\ ~Unparseable(sent[i].text)
       /\ TablesOf(sent[i].text.val) = {"todos"}
       /\ TodosOf(sent[i].text.val) = c
  /\ \A j \in 1..Len(pending[n]) :
       ~(pending[n][j].op = "put" /\ pending[n][j].data = Doc(c))

\* C23: every local edit is persisted.  Whatever tab made an edit, and
\* whatever the state of its socket was then, the todos that edit produced
\* are saved in its shard in the end.
C23_EditsPersist ==
  \A t \in Sessions : \A c \in 1..MaxEdits :
    (lastEdit = [tab |-> t, c |-> c]) ~> Saved(objOf[t], c)

\* Nothing is in flight in shard n: no storage call is awaited, every frame
\* a tab sent was received, every frame sent to a tab was handled by it.
Quiet(n) ==
  /\ pending[n] = <<>>
  /\ \A t \in Sessions :
       objOf[t] = n => (up[t] = <<>> /\ seen[t] = Len(inbox[t]))

\* C24: the tabs of a user converge.  When nothing is in flight in a shard,
\* the todos of every tab of it whose socket is open are the todos of the
\* document the shard serves.
C24_TabsConverge ==
  \A n \in Names :
    Quiet(n)
      => \A t \in Sessions :
           (objOf[t] = n /\ wsState[t] = "open")
              => todos[t] = PageTodos(CurrentDocument(n))

\* The handler of an earlier request is still awaiting object n.
Awaiting(n) == pending[n] # <<>>

\* C31: the read, check and update of an address's record is one step,
\* whatever handlers of earlier requests are still awaiting their object.
\* No update is lost: the record counts every request the address made in
\* its window, up to 100; and a request is allowed only as one of the first
\* 100 of its window, so at most 100 are.
C31_AtomicUpdate ==
  /\ [](\A a \in Addresses :
          rateLimiter[a] # NoEntry
            => rateLimiter[a].count =
                 IF winCount[a] < maxRequests THEN winCount[a] ELSE maxRequests)
  /\ [][\A a \in Addresses :
          (RequestFrom(a) /\ limited'[a] = "allowed")
            => /\ winCount'[a] <= maxRequests
               /\ rateLimiter'[a].count = winCount'[a]]_vars

\* C31 witness: an address made its 99th, 100th and 101st request while the
\* handlers of the first two were still awaiting the same object; the third
\* was denied, and the other address made none.
C31_Witness ==
  \E a \in Addresses, b \in Addresses, n \in Names :
    /\ a # b
    /\ winCount[a] = maxRequests + 1 /\ limited[a] = "denied"
    /\ rateLimiter[a].count = maxRequests
    /\ winCount[b] = maxRequests - MaxUnder
    /\ Len(pending[n]) = 2

\* The request carries the cookie session=id and nothing else.
CarriesOnlySession(r, id) ==
  r = [query |-> Null, auth |-> Null, cookie |-> Str(<<"session=">> \o id)]

\* C32: the identity GET / put in its session cookie comes back.  A request
\* that carries only the cookie of the Set-Cookie header last sent, which
\* names the identity that request was resolved to, is resolved, by either
\* route, to that same identity, hence to the same object.
C32_CookieRoundTrip ==
  [][(route = "none" /\ setCookie.present)
       => /\ IsSessionSetCookie(setCookie, userId)
          /\ CarriesOnlySession(req, userId)
          /\ userId' = userId
          /\ DOName(userId') = DOName(userId)]_vars

\* C32 witness: a visitor whose identity GET / synthesized (no request of
\* the model supplies this suffix) came back to /todos with the cookie alone
\* and was resolved to it.
C32_Witness ==
  \E anon \in AnonSuffixes :
    /\ route = "/todos"
    /\ CarriesOnlySession(req, <<"anon-", anon>>)
    /\ userId = <<"anon-", anon>>

\* The connect of s is awaiting the store behind a write of another session
\* of the same object: s connected while that write was in flight.
WriteAhead(s) ==
  /\ objOf[s] # NoObj
  /\ \E i, j \in 1..Len(pending[objOf[s]]) :
       /\ i < j
       /\ pending[objOf[s]][i].op = "put"
       /\ pending[objOf[s]][i].sess # s
       /\ pending[objOf[s]][j] = GetOp(s)

\* C33: a session that connected while a write of another session of its
\* shard was in flight receives the initial frame first, and no frame out of
\* order: a step that delivers a frame to it while that write and its own
\* connect are pending delivers the initial frame, as its first frame, and
\* every frame delivered to it carries the document stored after the step.
C33_InitialFrameFirst ==
  [][\A s \in Sessions :
       (WriteAhead(s) /\ inbox'[s] # inbox[s])
         => /\ inbox'[s][1].from = 0
            /\ Carries(LastFrame(s), OrDefault(storage'[objOf[s]]))]_vars

\* This step sends the initial frame of the connect at the head of n's
\* queue: server.send runs as the last statement of that handler.
SendsInitial(n) == Settles(n, "get")

\* C34: no frame is sent to a session that is not open.  A step that
\* completes a connect, and so sends the initial frame, finds the session
\* open, also when it closed during the awaited load; and a step that
\* delivers a frame to a session finds it open.
C34_SendsOnlyToOpen ==
  [][/\ \A n \in Names :
          SendsInitial(n) => readyState[Head(pending[n]).sess] = "open"
     /\ \A t \in Sessions :
          inbox'[t] # inbox[t] => readyState[t] = "open"]_vars

\* This step is a request that the router forwards to an object without an
\* upgrade: it was counted, not denied, and it opened no socket.
ForwardsPlain ==
  /\ \E a \in RouteAddresses : RequestFrom(a)
  /\ status' # 429
  /\ objOf' = objOf

\* C35: a request forwarded to a shard for /todos without an upgrade, by
\* either route and with or without a userId in its URL, is never answered
\* 404: the shard of its user starts the load whose answer is its document.
C35_ForwardedLoadAnswered ==
  [][ForwardsPlain
       => /\ status' # 404
          /\ IssuesLoad(DOName(ShardUser(userId')))]_vars

\* The sockets of tab p that are connecting or open.
LiveSockets(p) ==
  {s \in Sessions : tabOf[s] = p /\ wsState[s] \in {"connecting", "open"}}

\* Tab p made a connection attempt after socket s.
AttemptAfter(p, s) == \E r \in Sessions : r > s /\ tabOf[r] = p

\* Every session number of the model is in use.
NoSocketLeft == \A s \in Sessions : objOf[s] # NoObj

\* C36: a tab holds at most one socket that is connecting or open, at every
\* moment; and after a socket of the tab closed, whether it had opened or
\* not, the tab makes a new connection attempt (as long as the model has a
\* session number left for it).
C36_Reconnects ==
  /\ [](\A p \in Sessions : Cardinality(LiveSockets(p)) <= 1)
  /\ \A p, s \in Sessions :
       (tabOf[s] = p /\ wsState[s] = "closed")
         ~> (AttemptAfter(p, s) \/ NoSocketLeft)

\* C36 witness: a tab on its third socket: its first socket closed after it
\* had opened (it received its initial frame), the second attempt failed
\* before it opened, and the third is open.
C36_Witness ==
  /\ tabOf = [s \in Sessions |-> IF s <= 3 THEN 1 ELSE 0]
  /\ wsState[1] = "closed" /\ seen[1] = 1
  /\ wsState[2] = "closed" /\ inbox[2] = <<>>
  /\ wsState[3] = "open"

====
